---------------------------- MODULE Spec2Model ----------------------------
(***************************************************************************)
(* HELMSMAN: contract model, contract store, detectors and the contract    *)
(* evaluator, and the evaluation session built on them.                    *)
(*                                                                         *)
(* Python values are represented as follows.                               *)
(*   str        a tuple of one-character strings (so that substring,       *)
(*              case folding and character classes are computed);          *)
(*              identifiers and message texts, which the code only passes  *)
(*              around, are TLA+ strings                                   *)
(*   Optional   <<>> for None, <<v>> for a present value v                 *)
(*   list       a tuple                                                    *)
(*   dict       a function from keys to values, or a record of Optional    *)
(*              fields when the keys the code reads are fixed              *)
(***************************************************************************)
EXTENDS Integers, Sequences, FiniteSets, TLC

VARIABLES
    pc,            \* position of the caller's program
    dir,           \* the contract files of the directory, in walk order
    contracts,     \* the store load_contracts returned (dict, in insertion order)
    err,           \* the exception that escaped to the caller, "none" if none
    call,          \* arguments of the last evaluate_contract call (Optional)
    verdict,       \* what that call returned (Optional)
    pack,          \* the input records of the session
    idx,           \* number of pack items fully processed
    cur,           \* the item in flight: its locals inside the for loop
    out,           \* the lines written to the output file
    input,         \* arguments of the last direct call of a detector or evaluator
    ret            \* what that call returned (Optional)

vars == <<pc, dir, contracts, err, call, verdict, pack, idx, cur, out, input, ret>>

---------------------------------------------------------------------------
(* Optional values and small helpers *)

None == <<>>

Some(v) == <<v>>

IsNone(o) == o = <<>>

Get(o) == o[1]

Range(s) == {s[i] : i \in 1..Len(s)}

\* all tuples over S of length 0..n
SeqsUpTo(S, n) == UNION {[1..k -> S] : k \in 0..n}

\* all tuples over S of length 0..n without repeated elements
DistinctSeqsUpTo(S, n) ==
    {s \in SeqsUpTo(S, n) : \A i, j \in 1..Len(s) : i # j => s[i] # s[j]}

---------------------------------------------------------------------------
(* Strings *)

UpperCase == <<"A", "B", "C", "D", "E", "F", "G", "H", "I", "J", "K", "L", "M", "N", "O", "P", "Q", "R", "S", "T", "U", "V", "W", "X", "Y", "Z">>

LowerCase == <<"a", "b", "c", "d", "e", "f", "g", "h", "i", "j", "k", "l", "m", "n", "o", "p", "q", "r", "s", "t", "u", "v", "w", "x", "y", "z">>

Digits == {"0", "1", "2", "3", "4", "5", "6", "7", "8", "9"}

Whitespace == {" ", "\t", "\n"}

IsUpper(c) == c \in Range(UpperCase)

IsLetter(c) == c \in Range(UpperCase) \cup Range(LowerCase)

\* a regular-expression word character (\w)
IsWordChar(c) == IsLetter(c) \/ c \in Digits \/ c = "_"

\* str.isdigit
IsDigit(c) == c \in Digits

LowerChar(c) ==
    IF IsUpper(c)
    THEN LowerCase[CHOOSE i \in 1..Len(UpperCase) : UpperCase[i] = c]
    ELSE c

\* str.lower
Lower(s) == [i \in 1..Len(s) |-> LowerChar(s[i])]

\* `t in s` for strings
Contains(s, t) ==
    \E i \in 0..(Len(s) - Len(t)) : \A k \in 1..Len(t) : s[i + k] = t[k]

\* `not s.strip()`
IsBlank(s) == \A i \in 1..Len(s) : s[i] \in Whitespace

\* s.strip()
Strip(s) ==
    IF IsBlank(s) THEN <<>>
    ELSE LET first == CHOOSE i \in 1..Len(s) :
                          /\ s[i] \notin Whitespace
                          /\ \A k \in 1..(i - 1) : s[k] \in Whitespace
             last  == CHOOSE i \in 1..Len(s) :
                          /\ s[i] \notin Whitespace
                          /\ \A k \in (i + 1)..Len(s) : s[k] \in Whitespace
         IN  SubSeq(s, first, last)

---------------------------------------------------------------------------
(* evals/disambiguation.py *)

AMBIGUOUS_ENTITIES == {
    <<"j", "o", "r", "d", "a", "n">>,
    <<"a", "p", "p", "l", "e">>,
    <<"m", "e", "r", "c", "u", "r", "y">>,
    <<"a", "m", "a", "z", "o", "n">>,
    <<"w", "a", "s", "h", "i", "n", "g", "t", "o", "n">>}

RELATIVE_DATE_TERMS == {
    <<"l", "a", "s", "t">>,
    <<"n", "e", "x", "t">>,
    <<"t", "h", "i", "s">>,
    <<"r", "e", "c", "e", "n", "t">>,
    <<"a", "g", "o">>}

\* detect_ambiguity matching a term only as a whole word
detect_ambiguity_whole_word(query) ==
    LET lower == Lower(query)
        AsWord(term) ==
            \E i \in 0..(Len(lower) - Len(term)) :
                /\ \A k \in 1..Len(term) : lower[i + k] = term[k]
                /\ (i = 0 \/ ~IsWordChar(lower[i]))
                /\ (i + Len(term) = Len(lower) \/ ~IsWordChar(lower[i + Len(term) + 1]))
    IN  IF lower = <<>> THEN FALSE
        ELSE \E term \in AMBIGUOUS_ENTITIES \cup RELATIVE_DATE_TERMS : AsWord(term)

detect_ambiguity(query) ==
    LET lower == Lower(query)
    IN  IF lower = <<>> THEN FALSE
        ELSE \/ \E term \in AMBIGUOUS_ENTITIES : Contains(lower, term)
             \/ \E term \in RELATIVE_DATE_TERMS : Contains(lower, term)

\* The args dict of a detector: the keys the evaluators read, each Optional.
EmptyArgs ==
    [clarify_interrogatives |-> None,
     min_citations |-> None,
     require_independent_domains |-> None]

\* truth value of the dict (non-empty)
ArgsTruthy(args) ==
    \/ ~IsNone(args.clarify_interrogatives)
    \/ ~IsNone(args.min_citations)
    \/ ~IsNone(args.require_independent_domains)

\* check_asked_then_answered looking at the last turn instead of turn 1
check_asked_then_answered_last_turn(conversation, args) ==
    IF Len(conversation) < 2 THEN FALSE
    ELSE LET assistant_response == Lower(conversation[Len(conversation)])
             interrogatives ==
                 IF IsNone(args.clarify_interrogatives) THEN <<>>
                 ELSE Get(args.clarify_interrogatives)
         IN  \/ Contains(assistant_response, <<"?">>)
             \/ \E p \in 1..Len(interrogatives) :
                    Contains(assistant_response, Lower(interrogatives[p]))

check_asked_then_answered(conversation, args) ==
    IF Len(conversation) < 2 THEN FALSE
    ELSE LET assistant_response == Lower(conversation[2])
             interrogatives ==
                 IF IsNone(args.clarify_interrogatives) THEN <<>>
                 ELSE Get(args.clarify_interrogatives)
         IN  \/ Contains(assistant_response, <<"?">>)
             \/ \E p \in 1..Len(interrogatives) :
                    Contains(assistant_response, Lower(interrogatives[p]))

---------------------------------------------------------------------------
(* evals/citation_precision.py *)

\* length above which an answer counts as containing claims
CLAIM_LENGTH == 30

\* default of args.min_citations
DEFAULT_MIN_CITATIONS == 2

\* re.findall(r"\b[A-Z][a-zA-Z]{3,}\b", answer) is non-empty
HasCapitalisedWord(answer) ==
    \E i \in 1..Len(answer) :
        /\ IsUpper(answer[i])
        /\ (i = 1 \/ ~IsWordChar(answer[i - 1]))
        /\ \E j \in (i + 3)..Len(answer) :
               /\ \A k \in (i + 1)..j : IsLetter(answer[k])
               /\ (j = Len(answer) \/ ~IsWordChar(answer[j + 1]))

\* detect_claims with the word boundaries dropped from the pattern
detect_claims_no_boundary(answer) ==
    IF answer = <<>> \/ IsBlank(answer) THEN FALSE
    ELSE \/ \E i \in 1..Len(answer) : IsDigit(answer[i])
         \/ \E i \in 1..Len(answer) :
                /\ IsUpper(answer[i])
                /\ i + 3 <= Len(answer)
                /\ \A k \in (i + 1)..(i + 3) : IsLetter(answer[k])
         \/ Len(answer) > CLAIM_LENGTH

detect_claims(answer) ==
    IF answer = <<>> \/ IsBlank(answer) THEN FALSE
    ELSE \/ \E i \in 1..Len(answer) : IsDigit(answer[i])
         \/ HasCapitalisedWord(answer)
         \/ Len(answer) > CLAIM_LENGTH

\* check_citation_quality rejecting duplicates whatever the args say
check_citation_quality_always_distinct(citations, args) ==
    LET min_citations ==
            IF ArgsTruthy(args) /\ ~IsNone(args.min_citations)
            THEN Get(args.min_citations)
            ELSE DEFAULT_MIN_CITATIONS
    IN  IF Len(citations) < min_citations THEN FALSE
        ELSE IF Cardinality(Range(citations)) < Len(citations)
        THEN FALSE
        ELSE TRUE

check_citation_quality(citations, args) ==
    LET min_citations ==
            IF ArgsTruthy(args) /\ ~IsNone(args.min_citations)
            THEN Get(args.min_citations)
            ELSE DEFAULT_MIN_CITATIONS
        independent ==
            /\ ArgsTruthy(args)
            /\ ~IsNone(args.require_independent_domains)
            /\ Get(args.require_independent_domains)
    IN  IF Len(citations) < min_citations THEN FALSE
        ELSE IF independent /\ Cardinality(Range(citations)) < Len(citations)
        THEN FALSE
        ELSE TRUE

---------------------------------------------------------------------------
(* contracts/schemas.py *)

\* ContractMessages: the fields the evaluator reads, each Optional[str].
\* (on_fail_count, on_fail_independence, on_fail_coverage, on_fail_no_wait
\* and guidance are never read by the code and are left out.)
NoMessages ==
    [on_pass |-> None, on_fail_precision |-> None, on_fail_answered_directly |-> None]

\* ContractMetrics(**m): pass_criteria is required.
ContractMetrics(m) ==
    IF IsNone(m.pass_criteria) THEN None
    ELSE Some([pass_criteria |-> Get(m.pass_criteria)])

\* A raw applies_to / locales value as the YAML loader produced it:
\*   shape "missing"  the key is absent
\*   shape "str"      a scalar string, held in str
\*   shape "list"     a list of strings, held in items
\*   shape "other"    anything else (a number, a mapping, null)
MissingValue == [shape |-> "missing", str |-> "", items |-> <<>>]

OtherValue == [shape |-> "other", str |-> "", items |-> <<>>]

ScalarValue(s) == [shape |-> "str", str |-> s, items |-> <<>>]

ListValue(l) == [shape |-> "list", str |-> "", items |-> l]

\* Contract._ensure_list
ensure_list(v) ==
    IF v.shape = "str" THEN ListValue(<<v.str>>) ELSE v

\* Contract(**data): the validated model, or None when pydantic raises
\* ValidationError (a required field missing, or a field of the wrong shape).
Contract(data) ==
    LET applies_to == ensure_list(data.applies_to)
        locales    == ensure_list(data.locales)
        metrics    == IF IsNone(data.metrics) THEN Some(None)
                      ELSE LET m == ContractMetrics(Get(data.metrics))
                           IN  IF IsNone(m) THEN None ELSE Some(m)
    IN  IF \/ IsNone(data.id)
           \/ applies_to.shape # "list"
           \/ locales.shape # "list"
           \/ IsNone(metrics)
        THEN None
        ELSE Some([id           |-> Get(data.id),
                   applies_to   |-> applies_to.items,
                   locales      |-> locales.items,
                   precondition |-> data.precondition,
                   metrics      |-> Get(metrics),
                   detectors    |-> data.detectors,
                   messages     |-> data.messages])

---------------------------------------------------------------------------
(* contracts/registry.py *)

\* The content of one file under the directory:
\*   kind "unreadable"  open() or yaml.safe_load raises
\*   kind "empty"       safe_load returns None
\*   kind "nonmapping"  safe_load returns a list or a scalar: Contract(**data)
\*                      raises TypeError
\*   kind "mapping"     safe_load returns the mapping held in data
File(kind, data) == [kind |-> kind, data |-> data]

\* A dict is a tuple of entries [key, value] in insertion order, keys distinct.
Keys(store) == {store[i].key : i \in 1..Len(store)}

\* dict.values()
Values(store) == [i \in 1..Len(store) |-> store[i].value]

\* store[key], for a key of the dict
DictGet(store, key) ==
    store[CHOOSE i \in 1..Len(store) : store[i].key = key].value

\* DictPut keeping the value already stored under the key
DictPut_first_wins(store, key, value) ==
    IF key \in Keys(store) THEN store
    ELSE Append(store, [key |-> key, value |-> value])

\* store[key] = value: a new key is appended, a known key keeps its place
DictPut(store, key, value) ==
    IF key \in Keys(store)
    THEN [i \in 1..Len(store) |->
             IF store[i].key = key THEN [key |-> key, value |-> value] ELSE store[i]]
    ELSE Append(store, [key |-> key, value |-> value])

\* StoreKey filing every contract under one literal key
StoreKey_literal(contract) == "id"

\* line 56: the key a contract is stored under
StoreKey(contract) == contract.id

Returned(store) == [raised |-> "none", store |-> Some(store)]

Raised(e) == [raised |-> e, store |-> None]

RECURSIVE load_loop(_, _, _)
\* the for loop of load_contracts from file i on, with the dict built so far
load_loop(files, i, store) ==
    IF i > Len(files) THEN Returned(store)
    ELSE IF files[i].kind \in {"unreadable", "empty", "nonmapping"}
    THEN load_loop(files, i + 1, store)
    ELSE LET contract == Contract(Get(files[i].data))
         IN  IF IsNone(contract) THEN Raised("ValidationError")
             ELSE load_loop(files, i + 1, DictPut(store, StoreKey(Get(contract)), Get(contract)))

RECURSIVE load_loop_swallow(_, _, _)
\* load_loop with the ValidationError handler removed: every error is skipped
load_loop_swallow(files, i, store) ==
    IF i > Len(files) THEN Returned(store)
    ELSE IF files[i].kind \in {"unreadable", "empty", "nonmapping"}
    THEN load_loop_swallow(files, i + 1, store)
    ELSE LET contract == Contract(Get(files[i].data))
         IN  IF IsNone(contract) THEN load_loop_swallow(files, i + 1, store)
             ELSE load_loop_swallow(files, i + 1, DictPut(store, StoreKey(Get(contract)), Get(contract)))

load_contracts_swallow(files) == load_loop_swallow(files, 1, <<>>)

load_contracts(files) == load_loop(files, 1, <<>>)

---------------------------------------------------------------------------
(* core/orchestrator.py: evaluate_contract *)

Verdict(id, passed, message) ==
    [kind |-> "verdict", id |-> id, passed |-> passed, message |-> message,
     error |-> "none"]

Raise(e) ==
    [kind |-> "raise", id |-> "", passed |-> FALSE, message |-> None, error |-> e]

\* truth value of an Optional[str]
StrTruthy(o) == ~IsNone(o) /\ Get(o) # ""

\* truth value of an Optional[dict]
DictTruthy(o) == ~IsNone(o) /\ DOMAIN Get(o) # {}

\* Applies with the ambiguity detector run when no precondition is declared.
Applies_default_detector(contract, query, answer) ==
    IF StrTruthy(contract.precondition)
    THEN IF Get(contract.precondition) = "query_is_ambiguous"
         THEN detect_ambiguity(query)
         ELSE IF Get(contract.precondition) = "contains_factual_claims"
         THEN detect_claims(answer)
         ELSE TRUE
    ELSE detect_ambiguity(query)

\* lines 75-84: does the contract apply
Applies(contract, query, answer) ==
    IF StrTruthy(contract.precondition)
    THEN IF Get(contract.precondition) = "query_is_ambiguous"
         THEN detect_ambiguity(query)
         ELSE IF Get(contract.precondition) = "contains_factual_claims"
         THEN detect_claims(answer)
         ELSE TRUE
    ELSE TRUE

\* contract.messages.on_pass if contract.messages else None
OnPass(contract) ==
    IF ~IsNone(contract.messages) THEN Get(contract.messages).on_pass ELSE None

\* Inapplicable reporting a contract that does not apply as failed.
Inapplicable_fails(contract) ==
    Verdict(contract.id, FALSE, OnPass(contract))

\* lines 84-89: the verdict of a contract whose precondition is false
Inapplicable(contract) ==
    Verdict(contract.id, TRUE, OnPass(contract))

\* lines 95-102: pass criteria asked_then_answered
AskedThenAnswered(contract, conversation) ==
    IF DictTruthy(contract.detectors)
       /\ "asked_then_answered" \notin DOMAIN Get(contract.detectors)
    THEN Raise("KeyError")
    ELSE LET args ==
                 IF DictTruthy(contract.detectors)
                 THEN Get(contract.detectors)["asked_then_answered"].args
                 ELSE EmptyArgs
             result == check_asked_then_answered(conversation, args)
         IN  IF result
             THEN Verdict(contract.id, TRUE, OnPass(contract))
             ELSE Verdict(contract.id, FALSE,
                      IF ~IsNone(contract.messages)
                      THEN Get(contract.messages).on_fail_answered_directly
                      ELSE Some("Failed disambiguation contract"))

\* precision_and_coverage passing whatever check_citation_quality returns
PrecisionAndCoverage_always_passes(contract, citations) ==
    Verdict(contract.id, TRUE, OnPass(contract))

\* lines 103-118: pass criteria precision_and_coverage
PrecisionAndCoverage(contract, citations) ==
    LET args ==
            IF DictTruthy(contract.detectors)
               /\ "precision_and_coverage" \in DOMAIN Get(contract.detectors)
            THEN Get(contract.detectors)["precision_and_coverage"].args
            ELSE EmptyArgs
        result == check_citation_quality(citations, args)
    IN  IF result
        THEN Verdict(contract.id, TRUE, OnPass(contract))
        ELSE Verdict(contract.id, FALSE,
                 IF ~IsNone(contract.messages)
                    /\ StrTruthy(Get(contract.messages).on_fail_precision)
                 THEN Get(contract.messages).on_fail_precision
                 ELSE Some("Failed citations contract"))

\* UnknownCriteria failing a contract whose criteria name is not known.
UnknownCriteria_fails(contract) ==
    Verdict(contract.id, FALSE, Some("Unknown pass criteria"))

\* lines 119-122: any other pass criteria, or no metrics block
UnknownCriteria(contract) ==
    Verdict(contract.id, TRUE, OnPass(contract))

\* lines 91-123: the pass-criteria stage
PassCriteria(contract, conversation, citations) ==
    LET criteria ==
            IF ~IsNone(contract.metrics)
            THEN Some(Get(contract.metrics).pass_criteria) ELSE None
    IN  IF criteria = Some("asked_then_answered")
        THEN AskedThenAnswered(contract, conversation)
        ELSE IF criteria = Some("precision_and_coverage")
        THEN PrecisionAndCoverage(contract, citations)
        ELSE UnknownCriteria(contract)

evaluate_contract(contract, query, answer, conversation, citations) ==
    IF ~Applies(contract, query, answer)
    THEN Inapplicable(contract)
    ELSE PassCriteria(contract, conversation, citations)

---------------------------------------------------------------------------
(* Inputs: texts *)

Q_Jordan == <<"T", "e", "l", "l", " ", "m", "e", " ", "a", "b", "o", "u", "t", " ", "J", "o", "r", "d", "a", "n">>

Q_Computers == <<"T", "e", "l", "l", " ", "m", "e", " ", "a", "b", "o", "u", "t", " ", "c", "o", "m", "p", "u", "t", "e", "r", "s">>

A_Hello == <<"H", "e", "l", "l", "o", " ", "w", "o", "r", "l", "d", ".">>

A_Ok == <<"o", "k", ".">>

A_Which == <<"w", "h", "i", "c", "h", " ", "o", "n", "e", " ", "d", "o", " ", "y", "o", "u", " ", "m", "e", "a", "n">>

A_Mean == <<"d", "o", " ", "y", "o", "u", " ", "m", "e", "a", "n", " ", "i", "t", "?">>

P_Which == <<"W", "h", "i", "c", "h">>

---------------------------------------------------------------------------
(* Inputs: contract records *)

Preconditions ==
    {None, Some(""), Some("query_is_ambiguous"), Some("contains_factual_claims"),
     Some("is_medical_query")}

\* raw metrics blocks: absent, without pass_criteria, and three criteria names
RawMetrics ==
    {None, Some([pass_criteria |-> None])}
    \cup {Some([pass_criteria |-> Some(n)]) :
            n \in {"asked_then_answered", "precision_and_coverage", "toxicity_free"}}

Detector(fn, args) == [fn |-> fn, args |-> args]

ArgsClarify == [EmptyArgs EXCEPT !.clarify_interrogatives = Some(<<P_Which>>)]

ArgsMin(n) == [EmptyArgs EXCEPT !.min_citations = Some(n)]

ArgsIndependent ==
    [EmptyArgs EXCEPT !.min_citations = Some(2),
                      !.require_independent_domains = Some(TRUE)]

DetectorMaps ==
    {[n \in {} |-> Detector("", EmptyArgs)],
     [n \in {"toxicity_free"} |-> Detector("check_toxicity", EmptyArgs)],
     [n \in {"asked_then_answered"} |->
         Detector("check_asked_then_answered", ArgsClarify)],
     [n \in {"precision_and_coverage"} |->
         Detector("check_citation_quality", ArgsMin(1))],
     [n \in {"asked_then_answered", "precision_and_coverage"} |->
         IF n = "asked_then_answered"
         THEN Detector("check_asked_then_answered", EmptyArgs)
         ELSE Detector("check_citation_quality", ArgsIndependent)]}

Detectors == {None} \cup {Some(d) : d \in DetectorMaps}

Messages ==
    {None,
     Some(NoMessages),
     Some([NoMessages EXCEPT !.on_pass = Some("ok")]),
     Some([on_pass |-> Some("ok"),
           on_fail_precision |-> Some("too few sources"),
           on_fail_answered_directly |-> Some("answered directly")]),
     Some([NoMessages EXCEPT !.on_pass = Some("ok"),
                             !.on_fail_precision = Some("")])}

RawContract(id, applies_to, locales, precondition, metrics, detectors, messages) ==
    [id |-> id, applies_to |-> applies_to, locales |-> locales,
     precondition |-> precondition, metrics |-> metrics,
     detectors |-> detectors, messages |-> messages]

---------------------------------------------------------------------------
(* contracts/registry.py and core/orchestrator.py called directly:            *)
(* load_contracts on a directory, then evaluate_contract on a stored contract *)

\* most turns of a conversation handed to evaluate_contract
MaxTurns == 2

\* most citations handed to evaluate_contract
MaxCitations == 2

\* most files in the contract directory
MaxFiles == 3

Queries == {Q_Jordan, Q_Computers}

Answers == {<<>>, A_Ok, A_Hello}

Utterances == {A_Mean, A_Which}

CitationIds == {"doc1", "doc2"}

Conversations == SeqsUpTo(Utterances, MaxTurns)

CitationLists == SeqsUpTo(CitationIds, MaxCitations)

\* one-file directories holding every combination of the optional blocks
EvalDirs ==
    {<<File("mapping",
            Some(RawContract(Some("c1"), ListValue(<<"general_qa">>),
                             ListValue(<<"en">>), p, m, d, msg)))>> :
        p \in Preconditions, m \in RawMetrics, d \in Detectors, msg \in Messages}

\* file contents that differ in how far loading gets with them
LoadFiles ==
    {File("unreadable", None),
     File("empty", None),
     File("nonmapping", None)}
    \cup
    {File("mapping", Some(RawContract(id, a, l, None, None, None, None))) :
        id \in {Some("c1")},
        a \in {ListValue(<<"general_qa", "medical">>), ScalarValue("general_qa"),
               ListValue(<<>>)},
        l \in {ListValue(<<"en">>)}}
    \cup
    {File("mapping",
          Some(RawContract(Some("c2"), ListValue(<<"medical">>),
                           ScalarValue("fr"), None, None, None, None))),
     File("mapping",
          Some(RawContract(None, ListValue(<<"general_qa">>),
                           ListValue(<<"en">>), None, None, None, None))),
     File("mapping",
          Some(RawContract(Some("c3"), MissingValue,
                           ListValue(<<"en">>), None, None, None, None))),
     File("mapping",
          Some(RawContract(Some("c3"), ListValue(<<"general_qa">>),
                           OtherValue, None, None, None, None)))}

LoadDirs == SeqsUpTo(LoadFiles, MaxFiles)

NoCur ==
    [seed_id |-> "", input_query |-> <<>>, locale |-> "", topic |-> "",
     retrieved_snippets |-> <<>>, answer |-> <<>>, citations |-> <<>>,
     contract_results |-> <<>>]

InitCommon ==
    /\ pc = "start"
    /\ contracts = None
    /\ err = "none"
    /\ call = None
    /\ verdict = None
    /\ idx = 0
    /\ cur = NoCur
    /\ out = <<>>
    /\ input = None
    /\ ret = None

InitEval ==
    /\ InitCommon
    /\ dir \in EvalDirs
    /\ pack = <<>>

InitLoad ==
    /\ InitCommon
    /\ dir \in LoadDirs
    /\ pack = <<>>

\* load_contracts(directory) called by a client
LoadContracts ==
    /\ pc = "start"
    /\ LET r == load_contracts(dir)
       IN  /\ contracts' = r.store
           /\ err' = r.raised
           /\ pc' = IF r.raised = "none" THEN "loaded" ELSE "raised"
    /\ UNCHANGED <<input, ret, dir, call, verdict, pack, idx, cur, out>>

\* evaluate_contract(contract, query, answer, conversation, citations)
\* called by a client on a contract of the store
EvaluateContract ==
    /\ pc = "loaded"
    /\ \E i \in 1..Len(Get(contracts)), query \in Queries, answer \in Answers,
          conversation \in Conversations, citations \in CitationLists :
          LET contract == Values(Get(contracts))[i]
              res == evaluate_contract(contract, query, answer, conversation, citations)
          IN  /\ call' = Some([contract |-> contract, query |-> query,
                               answer |-> answer, conversation |-> conversation,
                               citations |-> citations])
              /\ verdict' = Some(res)
              /\ err' = res.error
              /\ pc' = IF res.kind = "raise" THEN "raised" ELSE "evaluated"
    /\ UNCHANGED <<input, ret, dir, contracts, pack, idx, cur, out>>

NextEval == LoadContracts \/ EvaluateContract

SpecEval == InitEval /\ [][NextEval]_vars

NextLoad == LoadContracts

SpecLoad == InitLoad /\ [][NextLoad]_vars

---------------------------------------------------------------------------
(* rag/retrieve.py and rag/answer.py *)

\* Retriever.max_docs
MAX_DOCS == 3

D_Jordan == <<"J", "o", "r", "d", "a", "n", " ", "i", "s", " ", "a", " ", "c", "o", "u", "n", "t", "r", "y", ".", " ", "I", "t", " ", "i", "s", " ", "o", "l", "d", ".">>

D_Apple == <<"w", "h", "i", "c", "h", " ", "a", "p", "p", "l", "e", "?", " ", "a", " ", "f", "r", "u", "i", "t", ".">>

\* the documents _load_corpus read from the corpus file
Corpus ==
    {[id |-> "doc1", text |-> D_Jordan],
     [id |-> "doc2", text |-> D_Apple]}

\* Retriever.retrieve: nothing for a blank query; otherwise the documents of
\* positive similarity, best first, at most max_docs of them.  The scores come
\* from the TF-IDF library, so any ranking of any documents is possible.
Retrievals(query) ==
    IF Strip(query) = <<>> THEN {<<>>}
    ELSE DistinctSeqsUpTo(Corpus, MAX_DOCS)

APOLOGY == <<"I", "'", "m", " ", "s", "o", "r", "r", "y", ",", " ", "I", " ", "c", "o", "u", "l", "d", "n", "'", "t", " ", "f", "i", "n", "d", " ", "a", "n", "y", " ", "r", "e", "l", "e", "v", "a", "n", "t", " ", "i", "n", "f", "o", "r", "m", "a", "t", "i", "o", "n", ".">>

\* re.split(r'(?<=[.?!])\s+', text.strip())[0]
FirstSentence(text) ==
    LET t == Strip(text)
        ends == {i \in 1..(Len(t) - 1) :
                    t[i] \in {".", "?", "!"} /\ t[i + 1] \in Whitespace}
    IN  IF ends = {} THEN t
        ELSE SubSeq(t, 1, CHOOSE i \in ends : \A k \in ends : i <= k)

\* Answerer.answer with an empty answer in place of the apology
Answer_empty_apology(query, retrieved_docs) ==
    IF retrieved_docs = <<>>
    THEN [answer |-> <<>>, citations |-> <<>>]
    ELSE [answer |-> FirstSentence(retrieved_docs[1].text),
          citations |-> [i \in 1..Len(retrieved_docs) |-> retrieved_docs[i].id]]

\* Answerer.answer
Answer(query, retrieved_docs) ==
    IF retrieved_docs = <<>>
    THEN [answer |-> APOLOGY, citations |-> <<>>]
    ELSE [answer |-> FirstSentence(retrieved_docs[1].text),
          citations |-> [i \in 1..Len(retrieved_docs) |-> retrieved_docs[i].id]]

---------------------------------------------------------------------------
(* core/orchestrator.py: run_orchestration *)

\* most records in the pack
MaxPack == 2

\* most contract files of a session's directory
MaxSessionFiles == 2

\* a pack record: every key Optional
Item(id, input_query, query, locale, topic) ==
    [id |-> id, input_query |-> input_query, query |-> query,
     locale |-> locale, topic |-> topic]

Items ==
    {Item(Some("s1"), Some(Q_Jordan), None, Some("en"), Some("general_qa")),
     Item(Some("s2"), None, Some(Q_Computers), None, None),
     Item(None, Some(<<>>), None, Some("fr"), Some("medical"))}

Packs == SeqsUpTo(Items, MaxPack)

SessionFiles ==
    {File("unreadable", None),
     File("mapping",
          Some(RawContract(None, ListValue(<<"general_qa">>), ListValue(<<"en">>),
                           None, None, None, None))),
     File("mapping",
          Some(RawContract(Some("disambiguate_before_answer"),
                           ListValue(<<"general_qa">>), ListValue(<<"en">>),
                           Some("query_is_ambiguous"),
                           Some([pass_criteria |-> Some("asked_then_answered")]),
                           Some([n \in {"asked_then_answered"} |->
                                    Detector("check_asked_then_answered", ArgsClarify)]),
                           Some([NoMessages EXCEPT !.on_pass = Some("ok")])))),
     File("mapping",
          Some(RawContract(Some("citations_minimum_and_precision"),
                           ScalarValue("general_qa"), ListValue(<<"en", "fr">>),
                           Some("contains_factual_claims"),
                           Some([pass_criteria |-> Some("precision_and_coverage")]),
                           Some([n \in {"precision_and_coverage"} |->
                                    Detector("check_citation_quality", ArgsIndependent)]),
                           None))),
     File("mapping",
          Some(RawContract(Some("medical_disclaimer"),
                           ListValue(<<"medical", "general_qa">>), ScalarValue("fr"),
                           None,
                           Some([pass_criteria |-> Some("asked_then_answered")]),
                           Some([n \in {"toxicity_free"} |->
                                    Detector("check_toxicity", EmptyArgs)]),
                           None)))}

SessionDirs == SeqsUpTo(SessionFiles, MaxSessionFiles)

\* a or b for Optional[str] operands
OrElse(a, b) == IF StrTruthy(a) THEN a ELSE b

\* the scope test with `or` in place of `and`
InScope_or(contract, topic, locale) ==
    \/ topic \in Range(contract.applies_to)
    \/ locale \in Range(contract.locales)

\* line 173: topic in contract.applies_to and locale in contract.locales
InScope(contract, topic, locale) ==
    /\ topic \in Range(contract.applies_to)
    /\ locale \in Range(contract.locales)

RECURSIVE evaluate_all(_, _, _, _, _, _, _, _)
\* lines 170-175: the loop over contracts.values() from contract i on;
\* the list of results, or the error evaluate_contract raised
evaluate_all(store, i, topic, locale, query, answer, citations, results) ==
    IF i > Len(store) THEN [raised |-> "none", results |-> results]
    ELSE IF InScope(store[i], topic, locale)
    THEN LET res == evaluate_contract(store[i], query, answer,
                                      <<query, answer>>, citations)
         IN  IF res.kind = "raise"
             THEN [raised |-> res.error, results |-> results]
             ELSE evaluate_all(store, i + 1, topic, locale, query, answer,
                               citations, Append(results, res))
    ELSE evaluate_all(store, i + 1, topic, locale, query, answer, citations, results)

Init ==
    /\ InitCommon
    /\ dir \in SessionDirs
    /\ pack \in Packs

\* StartSession without the test for an empty store
StartSession_no_check ==
    /\ pc = "start"
    /\ LET r == load_contracts(dir)
       IN  /\ contracts' = r.store
           /\ err' = r.raised
           /\ pc' = IF r.raised # "none" THEN "raised" ELSE "loop"
    /\ UNCHANGED <<input, ret, dir, call, verdict, pack, idx, cur, out>>

\* lines 135-157: load the contracts, leave if there are none, open the output
StartSession ==
    /\ pc = "start"
    /\ LET r == load_contracts(dir)
       IN  /\ contracts' = r.store
           /\ err' = r.raised
           /\ pc' = IF r.raised # "none" THEN "raised"
                    ELSE IF Get(r.store) = <<>> THEN "no_contracts"
                    ELSE "loop"
    /\ UNCHANGED <<input, ret, dir, call, verdict, pack, idx, cur, out>>

\* ProcessItem writing the verdicts reached so far when evaluate_contract raises
ProcessItem_partial_line ==
    /\ pc = "loop"
    /\ idx < Len(pack)
    /\ LET item   == pack[idx + 1]
           q      == OrElse(item.input_query, OrElse(item.query, Some(<<>>)))
           query  == IF IsNone(q) THEN <<>> ELSE Get(q)
           locale == IF IsNone(item.locale) THEN "en" ELSE Get(item.locale)
           topic  == IF IsNone(item.topic) THEN "general_qa" ELSE Get(item.topic)
           seed_id == IF IsNone(item.id) THEN "" ELSE Get(item.id)
       IN  \E retrieved_docs \in Retrievals(query) :
              LET a == Answer(query, retrieved_docs)
                  r == evaluate_all(Values(Get(contracts)), 1, topic, locale, query,
                                    a.answer, a.citations, <<>>)
                  rec == [seed_id |-> seed_id, input_query |-> query,
                          locale |-> locale, topic |-> topic,
                          retrieved_snippets |-> retrieved_docs,
                          answer |-> a.answer, citations |-> a.citations,
                          contract_results |-> r.results]
              IN  IF r.raised # "none"
                  THEN /\ pc' = "raised"
                       /\ err' = r.raised
                       /\ cur' = NoCur
                       /\ out' = Append(out, rec)
                  ELSE /\ pc' = "write"
                       /\ err' = err
                       /\ cur' = rec
                       /\ out' = out
    /\ UNCHANGED <<input, ret, dir, contracts, call, verdict, pack, idx>>

\* lines 158-188: one pass of the loop body up to the assembled result_item
ProcessItem ==
    /\ pc = "loop"
    /\ idx < Len(pack)
    /\ LET item   == pack[idx + 1]
           q      == OrElse(item.input_query, OrElse(item.query, Some(<<>>)))
           query  == IF IsNone(q) THEN <<>> ELSE Get(q)
           locale == IF IsNone(item.locale) THEN "en" ELSE Get(item.locale)
           topic  == IF IsNone(item.topic) THEN "general_qa" ELSE Get(item.topic)
           seed_id == IF IsNone(item.id) THEN "" ELSE Get(item.id)
       IN  \E retrieved_docs \in Retrievals(query) :
              LET a == Answer(query, retrieved_docs)
                  r == evaluate_all(Values(Get(contracts)), 1, topic, locale, query,
                                    a.answer, a.citations, <<>>)
              IN  IF r.raised # "none"
                  THEN /\ pc' = "raised"
                       /\ err' = r.raised
                       /\ cur' = NoCur
                  ELSE /\ pc' = "write"
                       /\ err' = err
                       /\ cur' = [seed_id |-> seed_id, input_query |-> query,
                                  locale |-> locale, topic |-> topic,
                                  retrieved_snippets |-> retrieved_docs,
                                  answer |-> a.answer, citations |-> a.citations,
                                  contract_results |-> r.results]
    /\ UNCHANGED <<input, ret, dir, contracts, call, verdict, pack, idx, out>>

\* WriteLine on a file reopened for writing: the earlier lines are lost
WriteLine_truncate ==
    /\ pc = "write"
    /\ out' = <<cur>>
    /\ idx' = idx + 1
    /\ cur' = NoCur
    /\ pc' = "loop"
    /\ UNCHANGED <<input, ret, dir, contracts, err, call, verdict, pack>>

\* line 189: f.write(json.dumps(result_item) + "\n")
WriteLine ==
    /\ pc = "write"
    /\ out' = Append(out, cur)
    /\ idx' = idx + 1
    /\ cur' = NoCur
    /\ pc' = "loop"
    /\ UNCHANGED <<input, ret, dir, contracts, err, call, verdict, pack>>

\* the for loop is exhausted: the file is closed and run_orchestration returns
Finish ==
    /\ pc = "loop"
    /\ idx = Len(pack)
    /\ pc' = "done"
    /\ UNCHANGED <<input, ret, dir, contracts, err, call, verdict, pack, idx, cur, out>>

Next == StartSession \/ ProcessItem \/ WriteLine \/ Finish

Spec == Init /\ [][Next]_vars

\* contract files that demand citations of an answer holding factual claims:
\* two citations from independent sources, the default number, and none
CitationFiles ==
    {File("mapping",
          Some(RawContract(Some("citations_minimum_and_precision"),
                           ScalarValue("general_qa"), ListValue(<<"en", "fr">>),
                           Some("contains_factual_claims"),
                           Some([pass_criteria |-> Some("precision_and_coverage")]),
                           Some([n \in {"precision_and_coverage"} |->
                                    Detector("check_citation_quality", ArgsIndependent)]),
                           None))),
     File("mapping",
          Some(RawContract(Some("citations_default"),
                           ListValue(<<"general_qa">>), ListValue(<<"en">>),
                           Some("contains_factual_claims"),
                           Some([pass_criteria |-> Some("precision_and_coverage")]),
                           None, None))),
     File("mapping",
          Some(RawContract(Some("citations_optional"),
                           ListValue(<<"general_qa">>), ListValue(<<"en">>),
                           Some("contains_factual_claims"),
                           Some([pass_criteria |-> Some("precision_and_coverage")]),
                           Some([n \in {"precision_and_coverage"} |->
                                    Detector("check_citation_quality", ArgsMin(0))]),
                           None)))}

CitationDirs == SeqsUpTo(CitationFiles, MaxSessionFiles)

\* a session over a directory of citation contracts
InitCitations ==
    /\ InitCommon
    /\ dir \in CitationDirs
    /\ pack \in Packs

SpecCitations == InitCitations /\ [][Next]_vars

---------------------------------------------------------------------------
(* evals/disambiguation.py and evals/citation_precision.py called directly *)

\* most words of a query or an answer handed to a detector
MaxWords == 2

\* most turns of a conversation handed to check_asked_then_answered
MaxCallTurns == 3

Q_LastWeek == <<"W", "h", "a", "t", " ", "h", "a", "p", "p", "e", "n", "e", "d", " ", "l", "a", "s", "t", " ", "w", "e", "e", "k", "?">>

W_Jordan == <<"J", "o", "r", "d", "a", "n">>

W_dragons == <<"d", "r", "a", "g", "o", "n", "s">>

W_computers == <<"c", "o", "m", "p", "u", "t", "e", "r", "s">>

W_LAST == <<"L", "A", "S", "T">>

W_week == <<"w", "e", "e", "k", "?">>

W_Hello == <<"H", "e", "l", "l", "o">>

W_world == <<"w", "o", "r", "l", "d", ".">>

W_iPhone == <<"i", "P", "h", "o", "n", "e">>

W_Abc == <<"A", "b", "c">>

W_Snake == <<"A", "b", "c", "d", "_", "e">>

W_ok == <<"o", "k">>

W_42 == <<"4", "2">>

W_Long == <<"t", "h", "i", "s", " ", "a", "n", "s", "w", "e", "r", " ", "h", "a", "s", " ", "n", "o", " ", "c", "a", "p", "i", "t", "a", "l", "s", " ", "y", "e", "t", " ", "i", "s", " ", "l", "o", "n", "g">>

W_Thirty == <<"e", "x", "a", "c", "t", "l", "y", " ", "t", "h", "i", "r", "t", "y", " ", "c", "h", "a", "r", "a", "c", "t", "e", "r", "s", " ", "l", "o", "n", "g">>

U_WHICH == <<"W", "H", "I", "C", "H", " ", "O", "N", "E">>

P_mean == <<"m", "e", "a", "n">>

RECURSIVE JoinWords(_)
\* " ".join(words)
JoinWords(words) ==
    IF Len(words) = 0 THEN <<>>
    ELSE IF Len(words) = 1 THEN words[1]
    ELSE words[1] \o <<" ">> \o JoinWords(Tail(words))

\* the texts made of at most n of the words
TextsUpTo(words, n) == {JoinWords(ws) : ws \in SeqsUpTo(words, n)}

\* queries handed to detect_ambiguity: None, the queries of the tests, and
\* texts in which a term stands alone, inside a longer word, or in capitals
AmbiguityQueries ==
    {None}
    \cup {Some(q) : q \in {Q_Jordan, Q_Computers, Q_LastWeek}}
    \cup {Some(q) : q \in TextsUpTo({W_Jordan, W_dragons, W_computers, W_LAST, W_week},
                                    MaxWords)}

\* answers handed to detect_claims: None, blank texts, and texts with and
\* without digits, capitalised words and more than CLAIM_LENGTH characters
ClaimAnswers ==
    {None}
    \cup {Some(a) : a \in TextsUpTo({W_Hello, W_world, W_iPhone, W_Abc, W_Snake, W_ok, W_42,
                                     <<" ">>, W_Long, W_Thirty}, MaxWords)}

CallConversations == SeqsUpTo({A_Mean, A_Which, A_Ok, U_WHICH}, MaxCallTurns)

\* args of check_asked_then_answered: without the key, with an empty list,
\* with phrases in capitals and in small letters
ClarifyArgs ==
    {EmptyArgs}
    \cup {[EmptyArgs EXCEPT !.clarify_interrogatives = Some(l)] :
            l \in {<<>>, <<P_Which>>, <<P_mean, P_Which>>}}

\* args of check_citation_quality: None, or a dict with any of the keys
CitationArgs ==
    {None}
    \cup {Some([clarify_interrogatives |-> c, min_citations |-> m,
                require_independent_domains |-> r]) :
            c \in {None, Some(<<>>)},
            m \in {None, Some(0), Some(1), Some(2), Some(3)},
            r \in {None, Some(FALSE), Some(TRUE)}}

Input(fn, text, conversation, citations, args) ==
    [fn |-> fn, text |-> text, conversation |-> conversation,
     citations |-> citations, args |-> args]

\* `x or ""` for an Optional[str], and a None dict read as an empty one
TextOr(o) == IF IsNone(o) THEN <<>> ELSE Get(o)

ArgsOr(o) == IF IsNone(o) THEN EmptyArgs ELSE Get(o)

InitCalls ==
    /\ InitCommon
    /\ dir = <<>>
    /\ pack = <<>>

CallDetectAmbiguity ==
    /\ pc = "start"
    /\ \E query \in AmbiguityQueries :
          /\ input' = Some(Input("detect_ambiguity", query, <<>>, <<>>, None))
          /\ ret' = Some(detect_ambiguity(TextOr(query)))
    /\ pc' = "returned"
    /\ UNCHANGED <<dir, contracts, err, call, verdict, pack, idx, cur, out>>

CallDetectClaims ==
    /\ pc = "start"
    /\ \E answer \in ClaimAnswers :
          /\ input' = Some(Input("detect_claims", answer, <<>>, <<>>, None))
          /\ ret' = Some(detect_claims(TextOr(answer)))
    /\ pc' = "returned"
    /\ UNCHANGED <<dir, contracts, err, call, verdict, pack, idx, cur, out>>

CallAskedThenAnswered ==
    /\ pc = "start"
    /\ \E conversation \in CallConversations, args \in ClarifyArgs :
          /\ input' = Some(Input("check_asked_then_answered", None, conversation,
                                 <<>>, Some(args)))
          /\ ret' = Some(check_asked_then_answered(conversation, args))
    /\ pc' = "returned"
    /\ UNCHANGED <<dir, contracts, err, call, verdict, pack, idx, cur, out>>

CallCitationQuality ==
    /\ pc = "start"
    /\ \E citations \in CitationLists, args \in CitationArgs :
          /\ input' = Some(Input("check_citation_quality", None, <<>>, citations, args))
          /\ ret' = Some(check_citation_quality(citations, ArgsOr(args)))
    /\ pc' = "returned"
    /\ UNCHANGED <<dir, contracts, err, call, verdict, pack, idx, cur, out>>

NextCalls ==
    \/ CallDetectAmbiguity
    \/ CallDetectClaims
    \/ CallAskedThenAnswered
    \/ CallCitationQuality

SpecCalls == InitCalls /\ [][NextCalls]_vars

---------------------------------------------------------------------------
(* Properties *)

\* the evaluated call and its result, once evaluate_contract has been called
Called == ~IsNone(call)

TheContract == Get(call).contract

TheVerdict == Get(verdict)

\* the pass criteria name of a contract, None without a metrics block
CriteriaOf(c) ==
    IF IsNone(c.metrics) THEN None ELSE Some(Get(c.metrics).pass_criteria)

\* the on_pass text of a contract, None without a messages block
OnPassOf(c) == IF IsNone(c.messages) THEN None ELSE Get(c.messages).on_pass

\* the args a contract declares for a detector name, empty when not declared
DeclaredArgs(c, name) ==
    IF ~IsNone(c.detectors) /\ name \in DOMAIN Get(c.detectors)
    THEN Get(c.detectors)[name].args
    ELSE EmptyArgs

\* the number of verdicts a Run Record holds for a contract id
VerdictsFor(rec, id) ==
    Cardinality({j \in 1..Len(rec.contract_results) : rec.contract_results[j].id = id})

(* C1: every Run Record written by run_orchestration holds exactly one       *)
(* verdict for each loaded contract whose applies_to contains the record's   *)
(* topic and whose locales contains the record's locale, no verdict for any  *)
(* other loaded contract, and no verdict of a contract that is not loaded.   *)
C1_ScopedVerdicts ==
    \A k \in 1..Len(out) :
        LET rec == out[k]
            store == Values(Get(contracts))
        IN  /\ \A i \in 1..Len(store) :
                   IF /\ rec.topic \in Range(store[i].applies_to)
                      /\ rec.locale \in Range(store[i].locales)
                   THEN VerdictsFor(rec, store[i].id) = 1
                   ELSE VerdictsFor(rec, store[i].id) = 0
            /\ \A j \in 1..Len(rec.contract_results) :
                   \E i \in 1..Len(store) : rec.contract_results[j].id = store[i].id

\* a written Run Record with a verdict for one loaded contract and none for
\* another one, which matches the record's topic but not its locale
C1_Witness ==
    \E k \in 1..Len(out) :
        \E i, j \in 1..Len(Get(contracts)) :
            /\ VerdictsFor(out[k], Values(Get(contracts))[i].id) = 1
            /\ VerdictsFor(out[k], Values(Get(contracts))[j].id) = 0
            /\ out[k].topic \in Range(Values(Get(contracts))[j].applies_to)
            /\ out[k].locale \notin Range(Values(Get(contracts))[j].locales)

(* C2: when the precondition is query_is_ambiguous and detect_ambiguity of   *)
(* the query is false, or is contains_factual_claims and detect_claims of    *)
(* the answer is false, evaluate_contract returns passed = true with the     *)
(* contract's on_pass message, whatever the criteria, conversation and       *)
(* citations are.                                                            *)
C2_InapplicablePasses ==
    Called =>
        LET c == TheContract
        IN  (\/ /\ c.precondition = Some("query_is_ambiguous")
                /\ ~detect_ambiguity(Get(call).query)
             \/ /\ c.precondition = Some("contains_factual_claims")
                /\ ~detect_claims(Get(call).answer))
            => TheVerdict = Verdict(c.id, TRUE, OnPassOf(c))

\* a contract whose criteria would fail on the context (no citations) passes
\* because its precondition is false
C2_Witness ==
    /\ Called
    /\ TheContract.precondition = Some("contains_factual_claims")
    /\ ~detect_claims(Get(call).answer)
    /\ CriteriaOf(TheContract) = Some("precision_and_coverage")
    /\ Get(call).citations = <<>>
    /\ TheVerdict.kind = "verdict"
    /\ TheVerdict.passed

(* C3: evaluate_contract does not raise when the pass criteria is            *)
(* asked_then_answered or precision_and_coverage and the detectors mapping   *)
(* has no entry under that name: a verdict is returned.                      *)
C3_MissingDetectorNoRaise ==
    Called =>
        LET c == TheContract
        IN  \A name \in {"asked_then_answered", "precision_and_coverage"} :
                (/\ CriteriaOf(c) = Some(name)
                 /\ (IsNone(c.detectors) \/ name \notin DOMAIN Get(c.detectors)))
                => TheVerdict.kind = "verdict"

(* C4: on a failed pass-criteria check the message is the criteria-specific  *)
(* field when that field is set to a text, and the generic string            *)
(* "Failed <category> contract" when it is absent, also when the contract    *)
(* has a messages block; on a pass the message is on_pass.                   *)
C4_MessageSelection ==
    (Called /\ TheVerdict.kind = "verdict") =>
        LET c == TheContract
            field == IF IsNone(c.messages) THEN None
                     ELSE IF CriteriaOf(c) = Some("asked_then_answered")
                     THEN Get(c.messages).on_fail_answered_directly
                     ELSE Get(c.messages).on_fail_precision
            generic == IF CriteriaOf(c) = Some("asked_then_answered")
                       THEN Some("Failed disambiguation contract")
                       ELSE Some("Failed citations contract")
        IN  IF TheVerdict.passed
            THEN TheVerdict.message = OnPassOf(c)
            ELSE TheVerdict.message =
                     (IF IsNone(field) \/ field = Some("") THEN generic ELSE field)

(* C5: the only error that escapes load_contracts and evaluate_contract is   *)
(* the schema validation error of load_contracts; evaluate_contract never    *)
(* raises for a contract the schema accepted.                                *)
C5_OnlySchemaErrorEscapes ==
    /\ err \in {"none", "ValidationError"}
    /\ Called => TheVerdict.kind = "verdict"

(* C6: a contract whose pass criteria name is neither asked_then_answered    *)
(* nor precision_and_coverage, or that has no metrics block, gets            *)
(* passed = true with the on_pass message, and no error is raised.           *)
C6_UnknownCriteriaPasses ==
    Called =>
        LET c == TheContract
        IN  CriteriaOf(c) \notin {Some("asked_then_answered"),
                                  Some("precision_and_coverage")}
            => TheVerdict = Verdict(c.id, TRUE, OnPassOf(c))

\* a contract with an unknown criteria name reaches the pass-criteria stage
\* (its precondition holds on the answer) and passes
C6_Witness ==
    /\ Called
    /\ CriteriaOf(TheContract) = Some("toxicity_free")
    /\ TheContract.precondition = Some("contains_factual_claims")
    /\ detect_claims(Get(call).answer)
    /\ TheVerdict.kind = "verdict"
    /\ TheVerdict.passed
    /\ TheVerdict.message = Some("ok")

(* C7: with a precondition name other than query_is_ambiguous and            *)
(* contains_factual_claims, evaluate_contract does not raise and returns the *)
(* verdict the same contract gets with no precondition declared.             *)
C7_UnknownPreconditionApplies ==
    Called =>
        LET c == TheContract
        IN  c.precondition = Some("is_medical_query")
            => /\ TheVerdict.kind = "verdict"
               /\ TheVerdict =
                      evaluate_contract([c EXCEPT !.precondition = None],
                                        Get(call).query, Get(call).answer,
                                        Get(call).conversation, Get(call).citations)

(* C8: for a contract with no precondition declared, the verdict's passed    *)
(* value is the result of the named pass-criteria function on the            *)
(* conversation or the citations, with the args the contract declares for    *)
(* it, whatever detect_ambiguity and detect_claims give on the context.      *)
C8_NoPreconditionEvaluatesCriteria ==
    (Called /\ TheVerdict.kind = "verdict") =>
        LET c == TheContract
        IN  IsNone(c.precondition) =>
                /\ CriteriaOf(c) = Some("asked_then_answered")
                   => TheVerdict.passed =
                          check_asked_then_answered(
                              Get(call).conversation,
                              DeclaredArgs(c, "asked_then_answered"))
                /\ CriteriaOf(c) = Some("precision_and_coverage")
                   => TheVerdict.passed =
                          check_citation_quality(
                              Get(call).citations,
                              DeclaredArgs(c, "precision_and_coverage"))

\* a contract without precondition fails its criteria on a context where both
\* precondition detectors are false
C8_Witness ==
    /\ Called
    /\ IsNone(TheContract.precondition)
    /\ CriteriaOf(TheContract) = Some("precision_and_coverage")
    /\ ~detect_ambiguity(Get(call).query)
    /\ ~detect_claims(Get(call).answer)
    /\ TheVerdict.kind = "verdict"
    /\ ~TheVerdict.passed

\* a file that parses to a mapping without id, applies_to or locales, or with
\* one of the two lists of a wrong shape
SchemaInvalid(f) ==
    /\ f.kind = "mapping"
    /\ \/ IsNone(Get(f.data).id)
       \/ Get(f.data).applies_to.shape \in {"missing", "other"}
       \/ Get(f.data).locales.shape \in {"missing", "other"}

SchemaValid(f) == f.kind = "mapping" /\ ~SchemaInvalid(f)

(* C9: load_contracts skips a file that cannot be parsed, is empty or is not *)
(* a mapping and still loads the others; a file that parses but violates the *)
(* schema makes it raise the validation error and return no store.           *)
C9_SkipOrRaise ==
    pc # "start" =>
        IF \E i \in 1..Len(dir) : SchemaInvalid(dir[i])
        THEN /\ pc = "raised"
             /\ err = "ValidationError"
             /\ IsNone(contracts)
        ELSE /\ pc = "loaded"
             /\ err = "none"
             /\ ~IsNone(contracts)
             /\ {Values(Get(contracts))[i].id : i \in 1..Len(Get(contracts))}
                    = {Get(Get(dir[i].data).id) :
                           i \in {j \in 1..Len(dir) : SchemaValid(dir[j])}}

\* an unreadable file was skipped and a valid one loaded before a
\* schema-invalid file made the whole load raise
C9_Witness ==
    /\ pc = "raised"
    /\ err = "ValidationError"
    /\ Len(dir) = 3
    /\ dir[1].kind = "unreadable"
    /\ SchemaValid(dir[2])
    /\ SchemaInvalid(dir[3])

(* C10: every contract of the store has applies_to and locales as non-empty  *)
(* sequences; a field given as a scalar string is stored as the one-element  *)
(* sequence holding that string.                                             *)
C10_NonEmptyScopes ==
    ~IsNone(contracts) =>
        /\ \A i \in 1..Len(Get(contracts)) :
               /\ Values(Get(contracts))[i].applies_to # <<>>
               /\ Values(Get(contracts))[i].locales # <<>>
        /\ \A k \in 1..Len(dir) :
               (/\ SchemaValid(dir[k])
                /\ \A m \in (k + 1)..Len(dir) :
                       SchemaValid(dir[m]) => Get(dir[m].data).id # Get(dir[k].data).id)
               => \E i \in 1..Len(Get(contracts)) :
                      LET c == Values(Get(contracts))[i]
                          d == Get(dir[k].data)
                      IN  /\ c.id = Get(d.id)
                          /\ d.applies_to.shape = "str" => c.applies_to = <<d.applies_to.str>>
                          /\ d.locales.shape = "str" => c.locales = <<d.locales.str>>

\* the indexes of the schema-valid files of the directory with a given id
ValidWithId(id) ==
    {k \in 1..Len(dir) : SchemaValid(dir[k]) /\ Get(dir[k].data).id = Some(id)}

\* the ids of the schema-valid files of the directory
ValidIds == {Get(Get(dir[k].data).id) : k \in {j \in 1..Len(dir) : SchemaValid(dir[j])}}

\* the largest element of a non-empty set of numbers
Last(S) == CHOOSE k \in S : \A m \in S : m <= k

(* C11: when several records share an id, the store holds exactly one        *)
(* contract under that id, the one built from the last such record in        *)
(* processing order, and the store has one entry per distinct id.            *)
C11_LastWins ==
    pc = "loaded" =>
        LET store == Get(contracts)
        IN  /\ Len(store) = Cardinality(ValidIds)
            /\ \A id \in ValidIds :
                   /\ Cardinality({i \in 1..Len(store) : store[i].key = id}) = 1
                   /\ DictGet(store, id) =
                          Get(Contract(Get(dir[Last(ValidWithId(id))].data)))

\* two records with one id and different scopes were loaded, and the store
\* holds the second
C11_Witness ==
    /\ pc = "loaded"
    /\ Len(dir) = 2
    /\ SchemaValid(dir[1]) /\ SchemaValid(dir[2])
    /\ Get(dir[1].data).id = Get(dir[2].data).id
    /\ Contract(Get(dir[1].data)) # Contract(Get(dir[2].data))
    /\ Len(Get(contracts)) = 1
    /\ Get(contracts)[1].value = Get(Contract(Get(dir[2].data)))

(* C12: after load_contracts returns a store, looking up any id stored       *)
(* during the load returns a contract whose id field is the lookup key, and  *)
(* the id of every successfully constructed record is a key of the store.    *)
C12_LookupRoundTrip ==
    pc = "loaded" =>
        /\ \A key \in Keys(Get(contracts)) : DictGet(Get(contracts), key).id = key
        /\ \A id \in ValidIds : id \in Keys(Get(contracts))

\* a store with two keys, each leading to the contract of that id
C12_Witness ==
    /\ pc = "loaded"
    /\ Cardinality(Keys(Get(contracts))) = 2
    /\ \A key \in Keys(Get(contracts)) : DictGet(Get(contracts), key).id = key

(* C13: a session whose store is empty ends early with the diagnostic and    *)
(* writes no Run Record for any input record.                                *)
C13_EmptyStoreEarlyExit ==
    (~IsNone(contracts) /\ Get(contracts) = <<>>) =>
        /\ pc = "no_contracts"
        /\ out = <<>>
        /\ idx = 0
        /\ cur = NoCur

\* a session over two records whose directory holds only unparseable files
C13_Witness ==
    /\ pc = "no_contracts"
    /\ Len(pack) = 2
    /\ Len(dir) >= 1
    /\ out = <<>>

\* item.get("id", "")
SeedOf(item) == IF IsNone(item.id) THEN "" ELSE Get(item.id)

\* the first non-empty of input_query and query, else the empty string
QueryOf(item) ==
    IF ~IsNone(item.input_query) /\ Get(item.input_query) # <<>>
    THEN Get(item.input_query)
    ELSE IF ~IsNone(item.query) /\ Get(item.query) # <<>>
    THEN Get(item.query)
    ELSE <<>>

\* the lines written are the Run Records of the first records of the pack, in
\* order, and the record in flight is the next one
C14_InOrder ==
    /\ Len(out) = idx
    /\ idx <= Len(pack)
    /\ \A k \in 1..Len(out) :
           /\ out[k].seed_id = SeedOf(pack[k])
           /\ out[k].input_query = QueryOf(pack[k])
    /\ pc = "done" => Len(out) = Len(pack)
    /\ pc = "write" => /\ idx < Len(pack)
                       /\ cur.seed_id = SeedOf(pack[idx + 1])
                       /\ cur.input_query = QueryOf(pack[idx + 1])
    /\ pc # "write" => cur = NoCur

\* a step writes at most one line, after the lines already written, and
\* changes none of them
C14_AppendOnly ==
    /\ Len(out') \in {Len(out), Len(out) + 1}
    /\ \A k \in 1..Len(out) : out'[k] = out[k]

(* C14: a completed session over n records has written n lines, the k-th     *)
(* being the Run Record of the k-th input record; a written line is never    *)
(* rewritten; record k+1 is not processed before the line of record k has    *)
(* been written.                                                             *)
C14_SequentialOutput == []C14_InOrder /\ [][C14_AppendOnly]_vars

\* a completed session that wrote the records of two different inputs
C14_Witness ==
    /\ pc = "done"
    /\ Len(pack) = 2
    /\ Len(out) = 2
    /\ out[1].seed_id # out[2].seed_id
    /\ out[1].seed_id = SeedOf(pack[1])


\* the direct call of fn that has returned
Returns(fn) == ~IsNone(input) /\ Get(input).fn = fn /\ ~IsNone(ret)

(***************************************************************************)
(* C16: check_asked_then_answered returns false for a conversation of      *)
(* fewer than 2 turns; otherwise it returns true exactly when turn index 1,*)
(* case-folded, contains '?' or the case-folded form of a phrase of        *)
(* args.clarify_interrogatives (no phrases when the key is absent); the    *)
(* other turns do not affect the result.                                   *)
(***************************************************************************)
C16_AskedThenAnswered ==
    Returns("check_asked_then_answered") =>
        LET conversation == Get(input).conversation
            args == Get(Get(input).args)
            phrases == IF IsNone(args.clarify_interrogatives) THEN {}
                       ELSE Range(Get(args.clarify_interrogatives))
            Folded(turn) == [k \in 1..Len(turn) |-> LowerChar(turn[k])]
            Asks(turn) ==
                \/ \E k \in 1..Len(turn) : turn[k] = "?"
                \/ \E phrase \in phrases :
                       \E k \in 0..(Len(turn) - Len(phrase)) :
                           SubSeq(Folded(turn), k + 1, k + Len(phrase)) = Folded(phrase)
        IN  /\ Len(conversation) < 2 => Get(ret) = FALSE
            /\ Len(conversation) >= 2 => Get(ret) = Asks(conversation[2])
            /\ \A other \in CallConversations :
                   (Len(conversation) >= 2 /\ Len(other) >= 2
                    /\ other[2] = conversation[2])
                   => check_asked_then_answered(other, args) = Get(ret)

\* a '?' in turns 0 and 2, none in turn 1, and no phrase matched: false
C16_Witness ==
    /\ Returns("check_asked_then_answered")
    /\ Get(input).conversation = <<A_Mean, A_Ok, A_Mean>>
    /\ Get(Get(input).args).clarify_interrogatives = Some(<<P_Which>>)
    /\ Get(ret) = FALSE

(***************************************************************************)
(* C17: check_citation_quality returns false when there are fewer          *)
(* citations than args.min_citations (2 when args is absent, empty or      *)
(* lacks the key); when args.require_independent_domains is true it also   *)
(* returns false on a duplicate identifier; otherwise it returns true.     *)
(***************************************************************************)
C17_CitationQuality ==
    Returns("check_citation_quality") =>
        LET citations == Get(input).citations
            args == Get(input).args
            minimum ==
                IF IsNone(args) \/ IsNone(Get(args).min_citations) THEN 2
                ELSE Get(Get(args).min_citations)
            independent ==
                /\ ~IsNone(args)
                /\ Get(args).require_independent_domains = Some(TRUE)
            duplicate ==
                \E i, j \in 1..Len(citations) : i # j /\ citations[i] = citations[j]
        IN  Get(ret) = (~(Len(citations) < minimum) /\ ~(independent /\ duplicate))

\* a duplicated identifier, independence not required: true
C17_Witness ==
    /\ Returns("check_citation_quality")
    /\ Get(input).citations = <<"doc1", "doc1">>
    /\ ~IsNone(Get(input).args)
    /\ Get(Get(input).args).require_independent_domains = Some(FALSE)
    /\ Get(ret) = TRUE

C19_HelloWorldNoClaims ==
    (Returns("detect_claims") /\ Get(input).text = Some(A_Hello))
        => Get(ret) = FALSE

(***************************************************************************)
(* C20: detect_ambiguity returns true exactly when the lower-cased query   *)
(* contains, as a substring, a term of the ambiguous-entity set or of the  *)
(* relative-time set, and false for an empty or absent query; "Tell me     *)
(* about Jordan" and "What happened last week?" give true, "Tell me about  *)
(* computers" gives false.                                                 *)
(***************************************************************************)
C20_DetectAmbiguity ==
    Returns("detect_ambiguity") =>
        LET query == Get(input).text
            lowered == IF IsNone(query) THEN <<>>
                       ELSE [k \in 1..Len(Get(query)) |-> LowerChar(Get(query)[k])]
            Substrings ==
                {SubSeq(lowered, i, j) : i \in 1..Len(lowered), j \in 1..Len(lowered)}
        IN  /\ Get(ret) = (Substrings \cap (AMBIGUOUS_ENTITIES \cup RELATIVE_DATE_TERMS) # {})
            /\ query = None => Get(ret) = FALSE
            /\ query = Some(<<>>) => Get(ret) = FALSE
            /\ query \in {Some(Q_Jordan), Some(Q_LastWeek)} => Get(ret) = TRUE
            /\ query = Some(Q_Computers) => Get(ret) = FALSE

\* a term inside a longer word: "dragons" holds "ago"
C20_Witness ==
    /\ Returns("detect_ambiguity")
    /\ Get(input).text = Some(W_dragons)
    /\ Get(ret) = TRUE


\* the session raised while processing record k of the pack
RaisedAt(k) == pc = "raised" /\ ~IsNone(contracts) /\ idx = k - 1

\* out[k] holds a verdict of every loaded contract that is in scope of it
AllInScopeEvaluated(k) ==
    \A i \in 1..Len(Get(contracts)) :
        LET c == Values(Get(contracts))[i]
        IN  (out[k].topic \in Range(c.applies_to) /\ out[k].locale \in Range(c.locales))
            => \E j \in 1..Len(out[k].contract_results) :
                   /\ out[k].contract_results[j].kind = "verdict"
                   /\ out[k].contract_results[j].id = c.id

(***************************************************************************)
(* C21: a record with an empty or missing query never makes the session    *)
(* raise: retrieval returns an empty list, the answer carries no           *)
(* citations, every in-scope contract is evaluated to a verdict and the    *)
(* Run Record of the record is written.                                    *)
(***************************************************************************)
C21_EmptyInputsNeverRaise ==
    \A k \in 1..Len(pack) :
        QueryOf(pack[k]) = <<>> =>
            /\ ~RaisedAt(k)
            /\ (pc = "done" /\ ~IsNone(contracts)) => Len(out) >= k
            /\ k <= Len(out) =>
                   /\ out[k].retrieved_snippets = <<>>
                   /\ out[k].citations = <<>>
                   /\ AllInScopeEvaluated(k)


\* the precondition of c is absent, unknown, or evaluated true on the call
PreconditionHolds(c) ==
    \/ IsNone(c.precondition)
    \/ Get(c.precondition) \notin {"query_is_ambiguous", "contains_factual_claims"}
    \/ /\ Get(c.precondition) = "query_is_ambiguous"
       /\ detect_ambiguity(Get(call).query)
    \/ /\ Get(c.precondition) = "contains_factual_claims"
       /\ detect_claims(Get(call).answer)

\* the pass criteria of c is one of the two known ones and its function
\* returned false on the call
CriteriaFailed(c) ==
    \/ /\ CriteriaOf(c) = Some("asked_then_answered")
       /\ ~check_asked_then_answered(Get(call).conversation,
                                     DeclaredArgs(c, "asked_then_answered"))
    \/ /\ CriteriaOf(c) = Some("precision_and_coverage")
       /\ ~check_citation_quality(Get(call).citations,
                                  DeclaredArgs(c, "precision_and_coverage"))

(***************************************************************************)
(* C22: a verdict returned by evaluate_contract has passed = false if and  *)
(* only if the precondition is absent, unknown or evaluated true, the pass *)
(* criteria is asked_then_answered or precision_and_coverage, and that     *)
(* criteria function returned false on the context; in every other case    *)
(* passed is true; the verdict's id is the id of the evaluated contract.   *)
(***************************************************************************)
C22_SingleCauseOfFailure ==
    (Called /\ TheVerdict.kind = "verdict") =>
        /\ (TheVerdict.passed = FALSE)
               <=> (PreconditionHolds(TheContract) /\ CriteriaFailed(TheContract))
        /\ TheVerdict.passed \in BOOLEAN
        /\ TheVerdict.id = TheContract.id

\* a known precondition evaluated true and the citations check failed
C22_Witness ==
    /\ Called
    /\ TheVerdict.kind = "verdict"
    /\ TheContract.precondition = Some("contains_factual_claims")
    /\ detect_claims(Get(call).answer)
    /\ CriteriaOf(TheContract) = Some("precision_and_coverage")
    /\ TheVerdict.passed = FALSE


\* the Run Records assembled so far: the written ones and the one in flight
Assembled == IF pc = "write" THEN Append(out, cur) ELSE out

\* c demands citations of an answer holding factual claims, at least one of
\* them or the default number
DemandsCitations(c) ==
    /\ c.precondition = Some("contains_factual_claims")
    /\ CriteriaOf(c) = Some("precision_and_coverage")
    /\ LET m == DeclaredArgs(c, "precision_and_coverage").min_citations
       IN  IsNone(m) \/ Get(m) >= 1

(***************************************************************************)
(* C23: in run_orchestration a record for which retrieval returns no       *)
(* documents gets the fixed apology answer with no citations, and every    *)
(* in-scope contract with precondition contains_factual_claims and pass    *)
(* criteria precision_and_coverage (min_citations at least 1, or           *)
(* defaulted) receives passed = false for it, the apology being longer     *)
(* than 30 characters.                                                     *)
(***************************************************************************)
C23_ApologyFailsCitations ==
    \A k \in 1..Len(Assembled) :
        LET rec == Assembled[k]
        IN  rec.retrieved_snippets = <<>> =>
                /\ rec.answer = APOLOGY
                /\ rec.citations = <<>>
                /\ Len(rec.answer) > 30
                /\ \A i \in 1..Len(Get(contracts)) :
                       LET c == Values(Get(contracts))[i]
                       IN  (/\ rec.topic \in Range(c.applies_to)
                            /\ rec.locale \in Range(c.locales)
                            /\ DemandsCitations(c))
                           => /\ VerdictsFor(rec, c.id) = 1
                              /\ \A j \in 1..Len(rec.contract_results) :
                                     rec.contract_results[j].id = c.id
                                     => rec.contract_results[j].passed = FALSE

\* a non-blank query for which nothing was retrieved, written with failed
\* verdicts of the explicit and of the defaulted contract
C23_Witness ==
    \E k \in 1..Len(out) :
        /\ out[k].input_query # <<>>
        /\ out[k].retrieved_snippets = <<>>
        /\ \E i, j \in 1..Len(out[k].contract_results) :
               /\ out[k].contract_results[i].id = "citations_minimum_and_precision"
               /\ out[k].contract_results[i].passed = FALSE
               /\ out[k].contract_results[j].id = "citations_default"
               /\ out[k].contract_results[j].passed = FALSE


\* the session is stopped by an error raised inside the loop over the pack
Aborted == pc = "raised" /\ ~IsNone(contracts)

\* at an abort in record idx + 1: the error is kept, the lines are the complete
\* Run Records of records 1..idx in order, nothing of record idx + 1 or of a
\* later one is held or written, and the store is the loaded one
C24_AbortState ==
    Aborted =>
        /\ err # "none"
        /\ idx < Len(pack)
        /\ Len(out) = idx
        /\ \A k \in 1..Len(out) :
               /\ out[k].seed_id = SeedOf(pack[k])
               /\ out[k].input_query = QueryOf(pack[k])
               /\ AllInScopeEvaluated(k)
               /\ \A j \in 1..Len(out[k].contract_results) :
                      out[k].contract_results[j].kind = "verdict"
        /\ cur = NoCur
        /\ contracts = load_contracts(dir).store

\* nothing is done after an abort, and no step changes a loaded store
C24_AbortFinal ==
    /\ ~Aborted
    /\ ~IsNone(contracts) => contracts' = contracts

(***************************************************************************)
(* C24: if processing the k-th record of a session raises, the session     *)
(* aborts with that error and the lines written are exactly the complete   *)
(* Run Records of records 1..k-1 in input order: no partial record of      *)
(* record k, no record of a later input, and the contract store is what    *)
(* load_contracts returned.                                                *)
(***************************************************************************)
C24_AbortKeepsPrefix == []C24_AbortState /\ [][C24_AbortFinal]_vars

\* the second record of a pack raised after the first one was written
C24_Witness ==
    /\ Aborted
    /\ err = "KeyError"
    /\ Len(pack) = 2
    /\ idx = 1
    /\ Len(out) = 1
    /\ out[1].contract_results # <<>>

=============================================================================
